---- MODULE Spec2Model ----
(***************************************************************************)
(* The CDroidJNI bridge adapter (Sources/CDroidJNI/Helpers.cpp): eight     *)
(* forwarding functions over the JNI invocation surface, called by two     *)
(* host threads.  The adapter's own code is modelled statement by          *)
(* statement; the external runtime behind JNIEnv / JavaVM is modelled      *)
(* from its documented contract (the JNI_* operators below).               *)
(***************************************************************************)
EXTENDS Integers, Sequences, FiniteSets, TLC

\* ------------------------------------------------------------- bounds
\* Width in bits of `unsigned int count` and of jsize, scaled down from 32:
\* counts are 0 .. 2^CountBits - 1, jsize is -2^(CountBits-1) .. 2^(CountBits-1)-1.
CountBits == 3
\* Arrays the runtime can allocate before NewByteArray reports out of memory.
HeapCapacity == 1
\* Cap on outstanding pinned element buffers.
MaxPins == 2
\* Cap on CallVoidMethod invocations.
MaxCalls == 2

\* ------------------------------------------------------------ values
Threads == {1, 2}

\* Handles and values are pairs <<kind, n>>; n = 0 is the null handle.
Null(kind) == <<kind, 0>>
IsNull(h) == h[2] = 0
Void == <<"void", 0>>
IntVal(n) == <<"int", n>>
Status(s) == <<"status", s>>
VM == <<"JavaVM", 1>>
Env(t) == <<"JNIEnv", t>>
ArrayRef(r) == <<"jbyteArray", r>>
ElemsPtr(r) == <<"jbyte*", r>>

Objects == {"objA", "objB"}
Classes == {"ClsA", "ClsB"}
Names == {"run", "close"}
Sigs == {"()V"}
\* The methods the loaded classes declare; a jmethodID is an index into it.
MethodTable == << <<"ClsA", "run", "()V">>, <<"ClsB", "close", "()V">> >>

\* Native memory behind a CData.data pointer p: the signed bytes at p[0], p[1], ...
\* Pointer 0 addresses 0x41, 0x00, 0xFF (as signed char: 65, 0, -1), repeated.
ByteSample == <<65, 0, -1>>
Pointers == {0, 1}
NativeMem(p, i) == ByteSample[((p + i) % 3) + 1]

\* typedef struct { const signed char *data; unsigned int count; } CData;
Counts == 0 .. (2^CountBits - 1)
\* The buffers of a host: every count at pointer 0, and one buffer at pointer 1.
CDatas == [data : {0}, count : Counts] \cup {[data |-> 1, count |-> 2]}

\* The frame of a thread that is not inside the adapter.
NoFrame == [op |-> "none"]
NoCall == [thread |-> 0, op |-> "none", args |-> [none |-> 0], log |-> <<>>,
           val |-> Void]

VARIABLES
    pc,          \* pc[t]: where thread t is inside the adapter ("idle": outside)
    frame,       \* frame[t]: arguments and locals of the call thread t is in
    last,        \* the adapter call that returned last: thread, arguments,
                 \* runtime calls it issued (with their results) and its return value
    envSlot,     \* envSlot[t]: the caller's JNIEnv* output slot of thread t
    vmSlot,      \* vmSlot[t]: the caller's JavaVM* output slot of thread t
    registered,  \* runtime: registered[t] iff thread t is attached
    heap,        \* runtime: the byte arrays, heap[r] for array reference r
    made,        \* caller: made[r] is the CData array r was converted from
    pins,        \* runtime: outstanding pinned element buffers
    elemsGiven,  \* caller: GetByteArrayElements calls that returned a pointer
    stats,       \* runtime: class resolutions, method lookups, method runs;
                 \* calls: CallVoidMethod calls that returned
    liveRefs,    \* runtime: the object references that are valid
    buffers,     \* caller: the native byte buffers (CData) the host owns
    rt           \* runtime health: "ok", "ub" (undefined behaviour was
                 \* executed and survived) or "crashed"

vars == <<pc, frame, last, envSlot, vmSlot, registered, heap, made, pins,
          elemsGiven, stats, liveRefs, buffers, rt>>

\* ----------------------------------------------- the external runtime
Zeros(n) == [i \in 1..n |-> 0]

\* JNIEnv::GetJavaVM: the process's JavaVM.
JNI_GetJavaVM == [status |-> "JNI_OK", vm |-> VM]

\* JavaVM::GetEnv: the thread's env when attached, else a null env and
\* JNI_EDETACHED; an unsupported version gives JNI_EVERSION.
JNI_GetEnv(t, version) ==
    IF version # "JNI_VERSION_1_6"
    THEN [status |-> "JNI_EVERSION", env |-> Null("JNIEnv")]
    ELSE IF registered[t] THEN [status |-> "JNI_OK", env |-> Env(t)]
    ELSE [status |-> "JNI_EDETACHED", env |-> Null("JNIEnv")]

\* JavaVM::AttachCurrentThread: the outcomes.  Attaching an attached thread is
\* a no-op that succeeds; attaching may fail, and the slot is then left alone
\* or nulled.
JNI_AttachCurrentThread(t) ==
    {[status |-> "JNI_OK", env |-> Env(t), reg |-> TRUE]} \cup
    (IF registered[t] THEN {}
     ELSE {[status |-> "JNI_ERR", env |-> e, reg |-> FALSE] :
              e \in {envSlot[t], Null("JNIEnv")}})

\* JavaVM::DetachCurrentThread: an attached thread is unregistered; a thread
\* that is not attached gets an error status, which one is up to the runtime.
JNI_DetachCurrentThread(t) ==
    IF registered[t] THEN {[status |-> "JNI_OK", reg |-> FALSE]}
    ELSE {[status |-> s, reg |-> FALSE] : s \in {"JNI_EDETACHED", "JNI_ERR"}}

\* JNIEnv::GetObjectClass.
JNI_GetObjectClass(obj) == IF obj = "objA" THEN "ClsA" ELSE "ClsB"

\* JNIEnv::GetMethodID: the identifier of cls.name with signature sig, or null.
JNI_GetMethodID(cls, name, sig) ==
    IF \E i \in 1..Len(MethodTable) : MethodTable[i] = <<cls, name, sig>>
    THEN <<"jmethodID",
           CHOOSE i \in 1..Len(MethodTable) : MethodTable[i] = <<cls, name, sig>> >>
    ELSE Null("jmethodID")

\* JNIEnv::CallVoidMethod(obj, mid): runs the method once.  With a null
\* identifier the behaviour is undefined: the process dies, or the call is
\* ignored, or some method runs.
JNI_CallVoidMethod(obj, mid) ==
    IF ~IsNull(mid) THEN {[rt |-> rt, runs |-> 1]}
    ELSE {[rt |-> "crashed", runs |-> 0], [rt |-> "ub", runs |-> 0],
          [rt |-> "ub", runs |-> 1]}

\* JNIEnv::NewByteArray: the outcomes [ref, heap].  A negative length or an
\* exhausted heap gives null (reference 0); any allocation may fail.
JNI_NewByteArray(len) ==
    {[ref |-> 0, heap |-> heap]} \cup
    (IF len >= 0 /\ Len(heap) < HeapCapacity + 1
     THEN {[ref |-> Len(heap) + 1, heap |-> Append(heap, Zeros(len))]}
     ELSE {})

\* JNIEnv::SetByteArrayRegion on a non-null array: copies len bytes from native
\* memory p into arr[start ..]; an out-of-range region changes nothing.
JNI_SetByteArrayRegion(arr, start, len, p) ==
    IF start < 0 \/ len < 0 \/ start + len > Len(heap[arr])
    THEN heap
    ELSE [heap EXCEPT ![arr] =
            [i \in 1..Len(heap[arr]) |->
                IF i > start /\ i <= start + len
                THEN NativeMem(p, i - 1 - start)
                ELSE heap[arr][i]]]

\* JNIEnv::GetArrayLength.
JNI_GetArrayLength(arr) == Len(heap[arr])

\* JNIEnv::GetByteArrayElements: a pointer to the elements (pinned or copied),
\* or null when the runtime cannot provide one.
JNI_GetByteArrayElements(arr) == {Null("jbyte*"), ElemsPtr(arr)}

\* The bytes behind a non-null element pointer.
Deref(ptr) == heap[ptr[2]]

\* Array references a caller can pass: the array that came from the Java side
\* and the arrays data_SwiftToJava has returned.
KnownArrays == {1} \cup DOMAIN made

\* ---------------------------------------------------------- the adapter
Idle(t) == rt # "crashed" /\ pc[t] = "idle"

\* A call of thread t returns val to its caller.
Return(t, op, args, log, val) ==
    /\ pc' = [pc EXCEPT ![t] = "idle"]
    /\ frame' = [frame EXCEPT ![t] = NoFrame]
    /\ last' = [thread |-> t, op |-> op, args |-> args, log |-> log, val |-> val]

\* The state after the library is loaded: attached says which threads came in
\* from the Java side (already attached, holding their env), objs and bufs are
\* the object references and the native buffers the host holds.
InitWith(attached, objs, bufs) ==
    /\ pc = [t \in Threads |-> "idle"]
    /\ frame = [t \in Threads |-> NoFrame]
    /\ last = NoCall
    /\ envSlot = [t \in Threads |->
                    IF t \in attached THEN Env(t) ELSE Null("JNIEnv")]
    /\ vmSlot = [t \in Threads |-> Null("JavaVM")]
    /\ registered = [t \in Threads |-> t \in attached]
    /\ heap = << <<-1, 65>> >>
    /\ made = <<>>
    /\ pins = 0
    /\ elemsGiven = 0
    /\ stats = [resolves |-> 0, lookups |-> 0, invokes |-> 0, calls |-> 0]
    /\ liveRefs = objs
    /\ buffers = bufs
    /\ rt = "ok"

\* Two native threads; the host holds one object, the buffer 0x41 0x00 0xFF
\* and a buffer whose count has the top bit set.
Init ==
    InitWith({}, {"objA"},
             {[data |-> 0, count |-> 3], [data |-> 1, count |-> 2^CountBits - 1]})

\* Two native threads that only manage their registration.
InitThreads == InitWith({}, Objects, CDatas)

\* Two threads that came in from Java, with every object and buffer.
InitAttached == InitWith(Threads, Objects, CDatas)

\* Mutant of OutSlot: the output handle goes to one slot shared by all threads.
OutSlot_Shared(t) == 1

\* The runtime writes its output handle through the pointer the caller passed.
OutSlot(t) == t

\* GetJVM, GetJNIEnv, AttachCurrentThread and DetachCurrentThread are void: the
\* status the runtime call returns is dropped.
Discard(status) == Void

\* void GetJVM(JNIEnv *env, JavaVM **vm) { env->GetJavaVM(vm); }
GetJVM(t) ==
    /\ Idle(t)
    /\ registered[t]
    /\ LET r == JNI_GetJavaVM IN
        /\ vmSlot' = [vmSlot EXCEPT ![OutSlot(t)] = r.vm]
        /\ Return(t, "GetJVM", [env |-> Env(t)],
                  << <<"GetJavaVM", <<>>, Status(r.status)>> >>,
                  Discard(Status(r.status)))
    /\ UNCHANGED <<envSlot, registered, heap, made, pins, elemsGiven, stats,
                   liveRefs, buffers, rt>>

\* Mutant of GetJNIEnv_version: a version the runtime does not support.
GetJNIEnv_version_Unsupported == "JNI_VERSION_UNKNOWN"

\* The version GetJNIEnv asks for.
GetJNIEnv_version == "JNI_VERSION_1_6"

\* void GetJNIEnv(JavaVM *vm, JNIEnv **p_env)
\*   { vm->GetEnv((void**)p_env, JNI_VERSION_1_6); }
GetJNIEnv(t) ==
    /\ Idle(t)
    /\ LET r == JNI_GetEnv(t, GetJNIEnv_version) IN
        /\ envSlot' = [envSlot EXCEPT ![OutSlot(t)] = r.env]
        /\ Return(t, "GetJNIEnv", [vm |-> VM],
                  << <<"GetEnv", <<GetJNIEnv_version>>, Status(r.status)>> >>,
                  Discard(Status(r.status)))
    /\ UNCHANGED <<vmSlot, registered, heap, made, pins, elemsGiven, stats,
                   liveRefs, buffers, rt>>

\* void AttachCurrentThread(JavaVM *vm, JNIEnv **p_env)
\*   { vm->AttachCurrentThread(p_env, NULL); }
AttachCurrentThread(t) ==
    /\ Idle(t)
    /\ \E r \in JNI_AttachCurrentThread(t) :
        /\ registered' = [registered EXCEPT ![t] = r.reg]
        /\ envSlot' = [envSlot EXCEPT ![OutSlot(t)] = r.env]
        /\ Return(t, "AttachCurrentThread", [vm |-> VM],
                  << <<"AttachCurrentThread", <<Null("args")>>, Status(r.status)>> >>,
                  Discard(Status(r.status)))
    /\ UNCHANGED <<vmSlot, heap, made, pins, elemsGiven, stats, liveRefs,
                   buffers, rt>>

\* Mutant of DetachCurrentThread: the body calls vm->AttachCurrentThread.
DetachCurrentThread_Attaches(t) == AttachCurrentThread(t)

\* void DetachCurrentThread(JavaVM *vm) { vm->DetachCurrentThread(); }
DetachCurrentThread(t) ==
    /\ Idle(t)
    /\ \E r \in JNI_DetachCurrentThread(t) :
        /\ registered' = [registered EXCEPT ![t] = r.reg]
        /\ Return(t, "DetachCurrentThread", [vm |-> VM],
                  << <<"DetachCurrentThread", <<>>, Status(r.status)>> >>,
                  Discard(Status(r.status)))
    /\ UNCHANGED <<envSlot, vmSlot, heap, made, pins, elemsGiven, stats,
                   liveRefs, buffers, rt>>

\* Mutant of CallVoidMethod_Invokes: a null identifier is not invoked.
CallVoidMethod_ChecksId(mid) == ~IsNull(mid)

\* Whether CallVoidMethod goes on to the invocation once GetMethodID returned
\* mid: there is no test between the lookup and the call.
CallVoidMethod_Invokes(mid) == TRUE

\* CallVoidMethod, first statement:  jclass jc = env->GetObjectClass(thisClass);
CallVoidMethod_GetObjectClass(t) ==
    /\ Idle(t)
    /\ registered[t]
    /\ stats.resolves < MaxCalls
    /\ \E obj \in liveRefs, name \in Names, sig \in Sigs :
        LET jc == JNI_GetObjectClass(obj) IN
        /\ frame' = [frame EXCEPT ![t] =
              [op |-> "CallVoidMethod", thisClass |-> obj, name |-> name,
               sig |-> sig, jc |-> jc, midCallBack |-> Null("jmethodID"),
               log |-> << <<"GetObjectClass", <<obj>>, jc>> >>]]
        /\ pc' = [pc EXCEPT ![t] = "cvm_lookup"]
    /\ stats' = [stats EXCEPT !.resolves = @ + 1]
    /\ UNCHANGED <<last, envSlot, vmSlot, registered, heap, made, pins,
                   elemsGiven, liveRefs, buffers, rt>>

\* CallVoidMethod, second statement:
\*   jmethodID midCallBack = env->GetMethodID(jc, name, sig);
CallVoidMethod_GetMethodID(t) ==
    /\ rt # "crashed"
    /\ pc[t] = "cvm_lookup"
    /\ LET f == frame[t]
           mid == JNI_GetMethodID(f.jc, f.name, f.sig)
           log == Append(f.log, <<"GetMethodID", <<f.jc, f.name, f.sig>>, mid>>)
       IN  IF CallVoidMethod_Invokes(mid)
           THEN /\ frame' = [frame EXCEPT ![t].midCallBack = mid, ![t].log = log]
                /\ pc' = [pc EXCEPT ![t] = "cvm_call"]
                /\ stats' = [stats EXCEPT !.lookups = @ + 1]
                /\ UNCHANGED last
           ELSE /\ Return(t, "CallVoidMethod",
                          [thisClass |-> f.thisClass, name |-> f.name, sig |-> f.sig],
                          log, Void)
                /\ stats' = [stats EXCEPT !.lookups = @ + 1, !.calls = @ + 1]
    /\ UNCHANGED <<envSlot, vmSlot, registered, heap, made, pins, elemsGiven,
                   liveRefs, buffers, rt>>

\* Mutant of CallVoidMethod_Invoke: the invocation is attempted twice.
CallVoidMethod_InvokeTwice(obj, mid) ==
    {[rt |-> r.rt, runs |-> 2 * r.runs] : r \in JNI_CallVoidMethod(obj, mid)}

\* The invocation CallVoidMethod issues: one call of the runtime's
\* CallVoidMethod, no second attempt.
CallVoidMethod_Invoke(obj, mid) == JNI_CallVoidMethod(obj, mid)

\* CallVoidMethod, third statement:  env->CallVoidMethod(thisClass, midCallBack);
\* and the return.  A crash inside the runtime call leaves the thread there.
CallVoidMethod_Call(t) ==
    /\ rt # "crashed"
    /\ pc[t] = "cvm_call"
    /\ LET f == frame[t]
           log == Append(f.log,
                     <<"CallVoidMethod", <<f.thisClass, f.midCallBack>>, Void>>)
       IN  \E r \in CallVoidMethod_Invoke(f.thisClass, f.midCallBack) :
           /\ rt' = r.rt
           /\ IF r.rt = "crashed"
              THEN /\ frame' = [frame EXCEPT ![t].log = log]
                   /\ stats' = [stats EXCEPT !.invokes = @ + r.runs]
                   /\ UNCHANGED <<pc, last>>
              ELSE /\ Return(t, "CallVoidMethod",
                          [thisClass |-> f.thisClass, name |-> f.name, sig |-> f.sig],
                          log, Void)
                   /\ stats' = [stats EXCEPT !.invokes = @ + r.runs, !.calls = @ + 1]
    /\ UNCHANGED <<envSlot, vmSlot, registered, heap, made, pins, elemsGiven,
                   liveRefs, buffers>>

\* Mutant of GetArrayLength: the length is read through the element pointer,
\* which pins the array, and the last index is returned.
GetArrayLength_ViaElements(t) ==
    /\ Idle(t)
    /\ registered[t]
    /\ \E thisClass \in Classes, bArray \in KnownArrays :
        LET len == JNI_GetArrayLength(bArray) IN
        Return(t, "GetArrayLength", [thisClass |-> thisClass, bArray |-> bArray],
               << <<"GetArrayLength", <<bArray>>, IntVal(len)>> >>, IntVal(len - 1))
    /\ pins' = pins + 1
    /\ UNCHANGED <<envSlot, vmSlot, registered, heap, made, elemsGiven,
                   stats, liveRefs, buffers, rt>>

\* int GetArrayLength(JNIEnv *env, jclass thisClass, jbyteArray bArray)
\*   { int len = env->GetArrayLength(bArray); return len; }
GetArrayLength(t) ==
    /\ Idle(t)
    /\ registered[t]
    /\ \E thisClass \in Classes, bArray \in KnownArrays :
        LET len == JNI_GetArrayLength(bArray) IN
        Return(t, "GetArrayLength", [thisClass |-> thisClass, bArray |-> bArray],
               << <<"GetArrayLength", <<bArray>>, IntVal(len)>> >>, IntVal(len))
    /\ UNCHANGED <<envSlot, vmSlot, registered, heap, made, pins, elemsGiven,
                   stats, liveRefs, buffers, rt>>

\* Mutant of GetByteArrayElements_isCopy: the address of a local flag.
GetByteArrayElements_isCopyFlag == <<"jboolean*", 1>>

\* The isCopy argument GetByteArrayElements passes: the literal 0.
GetByteArrayElements_isCopy == Null("jboolean*")

\* jbyte* GetByteArrayElements(JNIEnv *env, jclass thisClass, jbyteArray bArray)
\*   { auto data = env->GetByteArrayElements(bArray, 0); return data; }
GetByteArrayElements(t) ==
    /\ Idle(t)
    /\ registered[t]
    /\ pins < MaxPins
    /\ \E thisClass \in Classes, bArray \in KnownArrays :
        \E data \in JNI_GetByteArrayElements(bArray) :
        /\ pins' = IF IsNull(data) THEN pins ELSE pins + 1
        /\ elemsGiven' = IF IsNull(data) THEN elemsGiven ELSE elemsGiven + 1
        /\ Return(t, "GetByteArrayElements",
                  [thisClass |-> thisClass, bArray |-> bArray],
                  << <<"GetByteArrayElements",
                       <<bArray, GetByteArrayElements_isCopy>>, data>> >>,
                  data)
    /\ UNCHANGED <<envSlot, vmSlot, registered, heap, made, stats, liveRefs,
                   buffers, rt>>

\* Mutant of ToJsize: a count above the largest jsize is clamped to it.
ToJsize_Clamped(count) ==
    IF count > 2^(CountBits - 1) - 1 THEN 2^(CountBits - 1) - 1 ELSE count

\* The implicit conversion of `unsigned int count` to the jsize parameter of
\* NewByteArray and SetByteArrayRegion: modulo 2^CountBits into the signed range.
ToJsize(count) ==
    ((count + 2^(CountBits - 1)) % 2^CountBits) - 2^(CountBits - 1)

\* Mutant of data_SwiftToJava_Failed: the null test is missing.
data_SwiftToJava_NoGuard(ret) == FALSE

\* if (ret == NULL) { return NULL; }
data_SwiftToJava_Failed(ret) == ret = 0

\* data_SwiftToJava, allocation and guard:
\*   jbyteArray ret = env->NewByteArray(data->count);
\*   if (ret == NULL) { return NULL; }
data_SwiftToJava_New(t) ==
    /\ Idle(t)
    /\ registered[t]
    /\ \E data \in buffers :
        \E r \in JNI_NewByteArray(ToJsize(data.count)) :
        LET log == << <<"NewByteArray", <<ToJsize(data.count)>>, ArrayRef(r.ref)>> >>
        IN  /\ heap' = r.heap
            /\ IF data_SwiftToJava_Failed(r.ref)
               THEN Return(t, "data_SwiftToJava", data, log, Null("jbyteArray"))
               ELSE /\ frame' = [frame EXCEPT ![t] =
                          [op |-> "data_SwiftToJava", data |-> data,
                           ret |-> r.ref, log |-> log]]
                    /\ pc' = [pc EXCEPT ![t] = "s2j_copy"]
                    /\ UNCHANGED last
    /\ UNCHANGED <<envSlot, vmSlot, registered, made, pins, elemsGiven, stats,
                   liveRefs, buffers, rt>>

\* Mutant of data_SwiftToJava_Region: the copy stops one element short.
data_SwiftToJava_ShortRegion(data) ==
    [start |-> 0, len |-> ToJsize(data.count) - 1, buf |-> data.data]

\* The region data_SwiftToJava copies: (ret, 0, data->count, data->data).
data_SwiftToJava_Region(data) ==
    [start |-> 0, len |-> ToJsize(data.count), buf |-> data.data]

\* data_SwiftToJava, copy and return:
\*   env->SetByteArrayRegion(ret, 0, data->count, data->data);  return ret;
\* SetByteArrayRegion on a null array is undefined: the process dies or the
\* call is ignored.
data_SwiftToJava_Set(t) ==
    /\ rt # "crashed"
    /\ pc[t] = "s2j_copy"
    /\ LET f == frame[t]
           rg == data_SwiftToJava_Region(f.data)
           log == Append(f.log,
                     <<"SetByteArrayRegion", <<f.ret, rg.start, rg.len, rg.buf>>,
                       Void>>)
       IN  IF f.ret = 0
           THEN \E o \in {"crashed", "ub"} :
                /\ rt' = o
                /\ IF o = "crashed"
                   THEN /\ frame' = [frame EXCEPT ![t].log = log]
                        /\ UNCHANGED <<pc, last>>
                   ELSE Return(t, "data_SwiftToJava", f.data, log, ArrayRef(f.ret))
                /\ UNCHANGED <<heap, made>>
           ELSE /\ heap' = JNI_SetByteArrayRegion(f.ret, rg.start, rg.len, rg.buf)
                /\ made' = (f.ret :> f.data) @@ made
                /\ Return(t, "data_SwiftToJava", f.data, log, ArrayRef(f.ret))
                /\ UNCHANGED rt
    /\ UNCHANGED <<envSlot, vmSlot, registered, pins, elemsGiven, stats, liveRefs,
                   buffers>>

Next ==
    \E t \in Threads :
        \/ GetJVM(t)
        \/ GetJNIEnv(t)
        \/ AttachCurrentThread(t)
        \/ DetachCurrentThread(t)
        \/ CallVoidMethod_GetObjectClass(t)
        \/ CallVoidMethod_GetMethodID(t)
        \/ CallVoidMethod_Call(t)
        \/ GetArrayLength(t)
        \/ GetByteArrayElements(t)
        \/ data_SwiftToJava_New(t)
        \/ data_SwiftToJava_Set(t)

Spec == Init /\ [][Next]_vars

\* Hosts that use only the registration functions.
NextThreads ==
    \E t \in Threads :
        \/ GetJVM(t)
        \/ GetJNIEnv(t)
        \/ AttachCurrentThread(t)
        \/ DetachCurrentThread(t)

SpecThreads == InitThreads /\ [][NextThreads]_vars

\* Hosts on attached threads that use only CallVoidMethod.
NextCall ==
    \E t \in Threads :
        \/ CallVoidMethod_GetObjectClass(t)
        \/ CallVoidMethod_GetMethodID(t)
        \/ CallVoidMethod_Call(t)

SpecCall == InitAttached /\ [][NextCall]_vars

\* Hosts on attached threads that use only the byte-array functions.
NextArrays ==
    \E t \in Threads :
        \/ GetArrayLength(t)
        \/ GetByteArrayElements(t)
        \/ data_SwiftToJava_New(t)
        \/ data_SwiftToJava_Set(t)

SpecArrays == InitAttached /\ [][NextArrays]_vars

\* ------------------------------------------------------------- claims
\* The runtime calls of invocation log, by position.
Fn(entry) == entry[1]
Args(entry) == entry[2]
Ret(entry) == entry[3]

\* The bytes of native buffer cd, in order.
Buffer(cd) == [i \in 1..cd.count |-> NativeMem(cd.data, i - 1)]

\* C1: in data_SwiftToJava, when NewByteArray returns null the call returns
\* null and issues no SetByteArrayRegion: an invocation whose allocation
\* failed has the allocation as its only runtime call, and no invocation is
\* ever past the guard holding a null array.
C1_NoCopyAfterFailedAllocation ==
    /\ (last.op = "data_SwiftToJava" /\ IsNull(Ret(last.log[1])))
          => /\ last.val = Null("jbyteArray")
             /\ Len(last.log) = 1
    /\ \A t \in Threads :
          frame[t].op = "data_SwiftToJava"
             => /\ ~IsNull(Ret(frame[t].log[1]))
                /\ frame[t].ret # 0

\* C1 witness: a buffer with a representable count whose allocation failed.
C1_Witness ==
    /\ last.op = "data_SwiftToJava"
    /\ last.args = [data |-> 0, count |-> 3]
    /\ IsNull(Ret(last.log[1]))
    /\ IsNull(last.val)

\* C2: an array data_SwiftToJava returned has exactly count elements, equal to
\* the buffer byte for byte; GetArrayLength and GetByteArrayElements on it give
\* the count and the original bytes; 0x41 0x00 0xFF with count 3 gives length 3
\* and the same three elements.
C2_RoundTrip ==
    /\ \A r \in DOMAIN made :
          /\ Len(heap[r]) = made[r].count
          /\ \A i \in 1..made[r].count : heap[r][i] = NativeMem(made[r].data, i - 1)
          /\ made[r] = [data |-> 0, count |-> 3] => heap[r] = <<65, 0, -1>>
    /\ (last.op = "data_SwiftToJava" /\ ~IsNull(last.val))
          => /\ last.val[2] \in DOMAIN made
             /\ made[last.val[2]] = last.args
    /\ (last.op = "GetArrayLength" /\ last.args.bArray \in DOMAIN made)
          => last.val = IntVal(made[last.args.bArray].count)
    /\ (last.op = "GetByteArrayElements" /\ last.args.bArray \in DOMAIN made
           /\ ~IsNull(last.val))
          => Deref(last.val) = Buffer(made[last.args.bArray])

\* C2 witness: the buffer 0x41 0x00 0xFF was converted and its elements were
\* read back through GetByteArrayElements.
C2_Witness ==
    /\ last.op = "GetByteArrayElements"
    /\ ~IsNull(last.val)
    /\ last.args.bArray \in DOMAIN made
    /\ made[last.args.bArray] = [data |-> 0, count |-> 3]

\* C3: GetArrayLength returns exactly the length of the array it is given,
\* whatever the class handle, and changes nothing in the runtime or the host:
\* array contents, thread registration and outstanding pins are as before.
C3_GetArrayLengthExact ==
    [][\A t \in Threads :
          GetArrayLength(t)
             => /\ last'.op = "GetArrayLength"
                /\ last'.val = IntVal(Len(heap[last'.args.bArray]))
                /\ UNCHANGED <<heap, registered, pins, envSlot, vmSlot, made,
                               elemsGiven, stats, liveRefs, rt>>]_vars

\* C3 witness: GetArrayLength returned 3 with one class handle, on an array
\* of three elements that data_SwiftToJava made.
C3_Witness ==
    /\ last.op = "GetArrayLength"
    /\ last.args.thisClass = "ClsB"
    /\ last.args.bArray # 1
    /\ last.val = IntVal(3)

C10_Length(c) == IF c < 2^(CountBits - 1) THEN c ELSE c - 2^CountBits

\* C10: the count reaches NewByteArray and SetByteArrayRegion as a signed
\* length of the same width: a count below 2^(CountBits-1) is passed as it is,
\* to both calls; a count from 2^(CountBits-1) up is passed as
\* count - 2^CountBits, a negative length, and the allocation is requested
\* all the same.
C10_CountPassedAsSigned ==
    /\ last.op = "data_SwiftToJava"
          => /\ Len(last.log) >= 1
             /\ Fn(last.log[1]) = "NewByteArray"
             /\ Args(last.log[1]) = <<C10_Length(last.args.count)>>
             /\ Len(last.log) = 2
                   => Args(last.log[2])[3] = C10_Length(last.args.count)
             /\ last.args.count >= 2^(CountBits - 1) => Args(last.log[1])[1] < 0
    /\ \A t \in Threads :
          frame[t].op = "data_SwiftToJava"
             => Args(frame[t].log[1]) = <<C10_Length(frame[t].data.count)>>

\* C10 witness: the largest count was passed to NewByteArray as -1.
C10_Witness ==
    /\ last.op = "data_SwiftToJava"
    /\ last.args.count = 2^CountBits - 1
    /\ Args(last.log[1]) = <<-1>>

C6_Calls(obj, name, sig, log) ==
    /\ Len(log) >= 1 => /\ Fn(log[1]) = "GetObjectClass"
                        /\ Args(log[1]) = <<obj>>
    /\ Len(log) >= 2 => /\ Fn(log[2]) = "GetMethodID"
                        /\ Args(log[2]) = <<Ret(log[1]), name, sig>>
    /\ Len(log) >= 3 => /\ Fn(log[3]) = "CallVoidMethod"
                        /\ Args(log[3]) = <<obj, Ret(log[2])>>

\* C6: every CallVoidMethod invocation issues GetObjectClass(object), then
\* GetMethodID(class, name, sig) with the class the first call returned, then
\* CallVoidMethod(object, id) with the identifier the second call returned,
\* null included, and returns nothing to its caller; a call in progress has
\* issued a prefix of these, all three only when the runtime died in the third.
C6_FixedOrderUnconditionalCall ==
    /\ last.op = "CallVoidMethod"
          => /\ Len(last.log) = 3
             /\ C6_Calls(last.args.thisClass, last.args.name, last.args.sig, last.log)
             /\ last.val = Void
    /\ \A t \in Threads :
          frame[t].op = "CallVoidMethod"
             => /\ C6_Calls(frame[t].thisClass, frame[t].name, frame[t].sig,
                            frame[t].log)
                /\ pc[t] = "cvm_lookup" => Len(frame[t].log) = 1
                /\ pc[t] = "cvm_call" => Len(frame[t].log) \in {2, 3}
                /\ Len(frame[t].log) = 3
                      => rt = "crashed" /\ IsNull(frame[t].midCallBack)

\* C6 witness: a call whose lookup failed issued the invocation with the null
\* identifier and returned.
C6_Witness ==
    /\ last.op = "CallVoidMethod"
    /\ Len(last.log) = 3
    /\ IsNull(Ret(last.log[2]))
    /\ IsNull(Args(last.log[3])[2])

\* The threads whose call in progress is at one of pcs.
InFlight(pcs) == Cardinality({t \in Threads : pc[t] \in pcs})

\* C7: while every call named an existing method, the calls that have
\* returned, k, have produced exactly k class resolutions, k lookups and k
\* runs of the method (a call in progress has done its resolution, and its
\* lookup once past it), and the object a call was given is still a valid
\* reference after it.
C7_OneResolutionLookupRunPerCall ==
    /\ rt = "ok"
          => /\ stats.resolves = stats.calls + InFlight({"cvm_lookup", "cvm_call"})
             /\ stats.lookups = stats.calls + InFlight({"cvm_call"})
             /\ stats.invokes = stats.calls
    /\ last.op = "CallVoidMethod" => last.args.thisClass \in liveRefs

\* C7 witness: two calls of an existing method have returned.
C7_Witness ==
    /\ rt = "ok"
    /\ last.op = "CallVoidMethod"
    /\ stats.calls = 2
    /\ stats.invokes = 2

\* A step of thread t, and what a call in progress of t must still see.
StepOf(t) ==
    \/ GetJVM(t)
    \/ GetJNIEnv(t)
    \/ AttachCurrentThread(t)
    \/ DetachCurrentThread(t)
    \/ CallVoidMethod_GetObjectClass(t)
    \/ CallVoidMethod_GetMethodID(t)
    \/ CallVoidMethod_Call(t)
    \/ GetArrayLength(t)
    \/ GetByteArrayElements(t)
    \/ data_SwiftToJava_New(t)
    \/ data_SwiftToJava_Set(t)

C9_InProgressConsistent(t) ==
    /\ pc[t] = "idle" => frame[t] = NoFrame
    /\ pc[t] \in {"cvm_lookup", "cvm_call"}
          => frame[t].jc = JNI_GetObjectClass(frame[t].thisClass)
    /\ (pc[t] = "cvm_call" /\ rt # "crashed")
          => frame[t].midCallBack =
                JNI_GetMethodID(frame[t].jc, frame[t].name, frame[t].sig)
    /\ pc[t] = "s2j_copy"
          => /\ frame[t].ret \in 1..Len(heap)
             /\ heap[frame[t].ret] = Zeros(ToJsize(frame[t].data.count))
             /\ frame[t].ret \notin KnownArrays
             /\ \A u \in Threads \ {t} :
                   pc[u] = "s2j_copy" => frame[u].ret # frame[t].ret

====
